---- MODULE Spec2Model ----
(***************************************************************************)
(* Model of src/crypto_tracker.py: a Streamlit script that is re-executed   *)
(* top to bottom on every user interaction.  The state is                   *)
(* st.session_state, the persisted file portfolio_data.json and what the    *)
(* last complete run of the script displayed.  Every action is one user     *)
(* interaction: the handler that the interaction triggers, followed by the  *)
(* rerun (st.rerun) that redraws the table and the chart.                   *)
(*                                                                         *)
(* Strings typed by the user are sequences of one-character strings, so     *)
(* that upper(), lower() and strip() are computed character by character.   *)
(* Amounts and prices are integers: one unit stands for one quantum of the  *)
(* float the code stores.                                                   *)
(***************************************************************************)
EXTENDS Integers, Sequences, FiniteSets, TLC

\* ------------------------------------------------------------------ bounds
\* Largest amount a holding may reach (add is not taken beyond it).
MaxAmount == 2
\* Largest amount typed into the add form.
MaxAddAmount == 1
\* Largest price the price source answers.
MaxPrice == 2

\* -------------------------------------------------------------- characters
LowerLetters == <<"b", "c", "e", "h", "i", "m", "n", "o", "r", "t", "u", "x">>
UpperLetters == <<"B", "C", "E", "H", "I", "M", "N", "O", "R", "T", "U", "X">>

\* str.upper(), one character
UpperChar(c) ==
    IF \E i \in DOMAIN LowerLetters : LowerLetters[i] = c
    THEN UpperLetters[CHOOSE i \in DOMAIN LowerLetters : LowerLetters[i] = c]
    ELSE c

\* str.lower(), one character
LowerChar(c) ==
    IF \E i \in DOMAIN UpperLetters : UpperLetters[i] = c
    THEN LowerLetters[CHOOSE i \in DOMAIN UpperLetters : UpperLetters[i] = c]
    ELSE c

Upper(s) == [i \in DOMAIN s |-> UpperChar(s[i])]
Lower(s) == [i \in DOMAIN s |-> LowerChar(s[i])]

RECURSIVE LStrip(_)
LStrip(s) == IF s # <<>> /\ Head(s) = " " THEN LStrip(Tail(s)) ELSE s

RECURSIVE RStrip(_)
RStrip(s) ==
    IF s # <<>> /\ s[Len(s)] = " " THEN RStrip(SubSeq(s, 1, Len(s) - 1)) ELSE s

\* str.strip()
Strip(s) == RStrip(LStrip(s))

\* ------------------------------------------------------------------ inputs
\* What the user may type into the "Crypto Ticker or Name" field.
RawInputs ==
    { <<>>,
      <<"b", "t", "c">>,
      <<" ", "B", "t", "c", " ">>,
      <<"B", "i", "t", "c", "o", "i", "n">>,
      <<"e", "t", "h">>,
      <<"x">> }

\* Further texts, typed only where the resolver is checked as a function.
TypedTexts ==
    RawInputs \cup
    { <<"B", "T", "C">>,
      <<"b", "T", "c", " ", " ">>,
      <<" ", " ", "b", "i", "t", "c", "o", "i", "n">>,
      <<"B", "I", "T", "C", "O", "I", "N", " ">>,
      <<" ", "E", "t", "h">>,
      <<"E", "t", "h", "e", "r", "e", "u", "m">>,
      <<"b", " ", "t", "c">>,
      <<" ", " ">> }

\* symbol_input for each text the user may type: upper-cased, then trimmed.
symbol_input_of == [raw \in TypedTexts |-> Strip(Upper(raw))]

\* What the user may type into the add form's amount field (min_value=0.0).
AddAmounts == 0 .. MaxAddAmount

\* What the user may type into the edit field (no min_value).
EditAmounts == (0 - 1) .. MaxAmount

\* Prices the price source may answer.
PriceValues == {MaxPrice}

\* The answer of /coins/list: {symbol, name, id} triples.
CoinsData ==
    << [symbol |-> <<"b", "t", "c">>,
        name   |-> <<"B", "i", "t", "c", "o", "i", "n">>,
        id     |-> "bitcoin"],
       [symbol |-> <<"e", "t", "h">>,
        name   |-> <<"E", "t", "h", "e", "r", "e", "u", "m">>,
        id     |-> "ethereum"] >>

\* Python's None, for a provider id / for edit_row / for edit_original_amount
NoneId == "None"
NoneRow == <<"None">>
NoneAmount == 0 - 999

\* ---------------------------------------------------------------- resolver
RECURSIVE BuildCoinMap(_, _)
BuildCoinMap(coins, coin_map) ==
    IF coins = <<>> THEN coin_map
    ELSE LET coin == Head(coins)
             m1 == (Lower(coin.symbol) :> coin.id) @@ coin_map
             m2 == (Lower(coin.name) :> coin.id) @@ m1
         IN  BuildCoinMap(Tail(coins), m2)

\* get_coin_list(): the table on success, {} when the request fails
get_coin_list(ok) == IF ok THEN BuildCoinMap(CoinsData, <<>>) ELSE <<>>

\* Mutant: the table is looked up with the text as it is.
get_coingecko_id_CaseSensitive(coin_map, ticker_or_name) ==
    IF ticker_or_name \in DOMAIN coin_map THEN coin_map[ticker_or_name] ELSE NoneId

\* get_coingecko_id(ticker_or_name), reading the table coin_map
get_coingecko_id(coin_map, ticker_or_name) ==
    LET lookup_key == Lower(ticker_or_name)
    IN  IF lookup_key \in DOMAIN coin_map THEN coin_map[lookup_key] ELSE NoneId

\* ------------------------------------------------------------- persistence
AbsentFile == [kind |-> "absent", data |-> <<>>]

\* json.dump(portfolio, f): the file holds the list document
save_portfolio(p) == [kind |-> "list", data |-> p]

\* What DATA_FILE may hold after save_portfolio raised: open(..., "w") failed
\* and the file is as it was, or the dump failed after the file was truncated.
FailedSave(f) == {f, [kind |-> "badjson", data |-> <<>>]}

\* load_portfolio(): raised = an exception leaves the function
load_portfolio(f) ==
    CASE f.kind = "absent"     -> [raised |-> FALSE, data |-> <<>>, error |-> FALSE]
      [] f.kind = "list"       -> [raised |-> FALSE, data |-> f.data, error |-> FALSE]
      [] f.kind = "nonlist"    -> [raised |-> FALSE, data |-> <<>>, error |-> TRUE]
      [] f.kind = "badjson"    -> [raised |-> FALSE, data |-> <<>>, error |-> TRUE]
      [] f.kind = "undecodable" -> [raised |-> TRUE, data |-> <<>>, error |-> FALSE]
      [] f.kind = "unreadable" -> [raised |-> TRUE, data |-> <<>>, error |-> FALSE]


\* ------------------------------------------------------------------- state
VARIABLES
    file,                  \* content of DATA_FILE
    started,               \* the session state has been initialised
    crashed,               \* a run ended with an uncaught exception
    coin_id_map,           \* the resolver table of this session
    price_ok,              \* the price request succeeds (cached, ttl=3600)
    price_data,            \* the price source's answer (cached, ttl=3600)
    portfolio,             \* st.session_state.portfolio
    selected_rows,         \* st.session_state.selected_rows
    edit_row,              \* st.session_state.edit_row
    edit_original_amount,  \* st.session_state.edit_original_amount
    ticker_not_found,      \* st.session_state.ticker_not_found
    current_prices,        \* price map of the last complete run
    holdings_data_display, \* rows of the last complete run
    total_value,           \* total of the last complete run
    chart,                 \* pie chart of the last complete run
    last,                  \* the last interaction: what it was and what it emitted
    expected_amount        \* per provider id, kept beside the ledger: None while
                           \* nothing is held, else the amount last loaded or
                           \* saved by an edit (0 for a new holding) plus every
                           \* amount added since

vars == << file, started, crashed, coin_id_map, price_ok, price_data, portfolio, selected_rows,
           edit_row, edit_original_amount, ticker_not_found, current_prices,
           holdings_data_display, total_value, chart, last, expected_amount >>

Ids == {CoinsData[i].id : i \in DOMAIN CoinsData}

\* A list item the script can read: a dict with the keys the loops index.
WellFormed(h) == {"ticker", "coingecko_id", "amount"} \subseteq DOMAIN h

Tickers(p) == {p[i].ticker : i \in DOMAIN p}

\* --------------------------------------------------------------- valuation
\* Mutant: a failed request is answered with a price of 0 for every id.
get_crypto_prices_ZeroOnFailure(coin_ids, ok, data) ==
    IF coin_ids = {} THEN <<>>
    ELSE [coin_id \in coin_ids |->
              IF ok /\ coin_id \in DOMAIN data THEN data[coin_id] ELSE 0]

\* get_crypto_prices(coin_ids): ok = the request succeeded, data = its answer
get_crypto_prices(coin_ids, ok, data) ==
    IF coin_ids = {} THEN <<>>
    ELSE IF ok
         THEN [coin_id \in coin_ids |->
                   IF coin_id \in DOMAIN data THEN data[coin_id] ELSE 0]
         ELSE <<>>

\* dict.get(coingecko_id, 0.0)
PriceOf(prices, coingecko_id) ==
    IF coingecko_id \in DOMAIN prices THEN prices[coingecko_id] ELSE 0

\* One pass of the valuation loop body.
ValuationRow(holding, prices) ==
    LET price == PriceOf(prices, holding.coingecko_id)
    IN  [symbol       |-> holding.ticker,
         coingecko_id |-> holding.coingecko_id,
         amount       |-> holding.amount,
         price        |-> price,
         value        |-> price * holding.amount]

\* The rows the valuation loop appends, in ledger order.
ValuationRows(p, prices) == [i \in DOMAIN p |-> ValuationRow(p[i], prices)]

\* Mutant: negative row values are left out of the total.
RECURSIVE TotalValue_Clamped(_)
TotalValue_Clamped(rows) ==
    IF rows = <<>> THEN 0
    ELSE TotalValue_Clamped(SubSeq(rows, 1, Len(rows) - 1))
             + (IF rows[Len(rows)].value > 0 THEN rows[Len(rows)].value ELSE 0)

\* total_value += value, row after row
RECURSIVE TotalValue(_)
TotalValue(rows) ==
    IF rows = <<>> THEN 0
    ELSE TotalValue(SubSeq(rows, 1, Len(rows) - 1)) + rows[Len(rows)].value

\* non_zero_holdings
NonZeroHoldings(rows) == SelectSeq(rows, LAMBDA item : item.value > 0)

NoChart == [rendered |-> FALSE, labels |-> <<>>, values |-> <<>>]

\* The "Portfolio Allocation" section.
PieChart(rows) ==
    IF rows # <<>>
    THEN LET non_zero_holdings == NonZeroHoldings(rows)
         IN  IF non_zero_holdings # <<>>
             THEN [rendered |-> TRUE,
                   labels |-> [i \in DOMAIN non_zero_holdings |->
                                   non_zero_holdings[i].symbol],
                   values |-> [i \in DOMAIN non_zero_holdings |->
                                   non_zero_holdings[i].value]]
             ELSE NoChart
    ELSE NoChart

\* selected_rows after the rows were drawn
CleanSelection(sel, rows) ==
    IF rows = <<>> THEN sel
    ELSE sel \cap {rows[i].symbol : i \in DOMAIN rows}

\* What the price source may answer for coin_ids: a price for every id, or
\* for every id but ethereum (whose row the code then prices 0).
PriceAnswers(coin_ids) ==
    UNION {[S -> PriceValues] : S \in {coin_ids, coin_ids \ {"ethereum"}}}

\* A complete run of the script below the form, on portfolio p and selection
\* sel: fetch prices, value the holdings, draw rows and chart.  The price
\* source answers the same throughout the session (its answers are cached).
Redraw(p, sel) ==
    LET coin_ids_to_fetch == {p[i].coingecko_id : i \in DOMAIN p}
        prices == get_crypto_prices(coin_ids_to_fetch, price_ok, price_data)
        rows == ValuationRows(p, prices)
    IN  /\ current_prices' = prices
        /\ holdings_data_display' = rows
        /\ total_value' = TotalValue(rows)
        /\ chart' = PieChart(rows)
        /\ selected_rows' = CleanSelection(sel, rows)

\* ----------------------------------------------------------------- ledger
\* Index of the first holding with this provider id, 0 when there is none.
FindHolding(p, coingecko_id) ==
    IF \E i \in DOMAIN p : p[i].coingecko_id = coingecko_id
    THEN CHOOSE i \in DOMAIN p :
             /\ p[i].coingecko_id = coingecko_id
             /\ \A j \in 1 .. (i - 1) : p[j].coingecko_id # coingecko_id
    ELSE 0

\* Index of the first holding with this ticker, 0 when there is none.
FindTicker(p, symbol) ==
    IF \E i \in DOMAIN p : p[i].ticker = symbol
    THEN CHOOSE i \in DOMAIN p :
             /\ p[i].ticker = symbol
             /\ \A j \in 1 .. (i - 1) : p[j].ticker # symbol
    ELSE 0

\* Mutant: the existing holding is looked up by ticker, not by provider id.
AddToPortfolio_MatchTicker(p, symbol_input, coingecko_id, amount_input) ==
    LET i == FindTicker(p, symbol_input)
    IN  IF i # 0
        THEN [p EXCEPT ![i].amount = @ + amount_input]
        ELSE Append(p, [ticker       |-> symbol_input,
                        coingecko_id |-> coingecko_id,
                        amount       |-> amount_input,
                        cost_basis   |-> 0])

\* Mutant: a merge stores the added amount instead of adding it.
AddToPortfolio_Overwrite(p, symbol_input, coingecko_id, amount_input) ==
    LET i == FindHolding(p, coingecko_id)
    IN  IF i # 0
        THEN [p EXCEPT ![i].amount = amount_input]
        ELSE Append(p, [ticker       |-> symbol_input,
                        coingecko_id |-> coingecko_id,
                        amount       |-> amount_input,
                        cost_basis   |-> 0])

\* Mutant: a new holding is put in front of the list.
AddToPortfolio_Prepend(p, symbol_input, coingecko_id, amount_input) ==
    LET i == FindHolding(p, coingecko_id)
    IN  IF i # 0
        THEN [p EXCEPT ![i].amount = @ + amount_input]
        ELSE << [ticker       |-> symbol_input,
                 coingecko_id |-> coingecko_id,
                 amount       |-> amount_input,
                 cost_basis   |-> 0] >> \o p

\* Mutant: every accepted add appends a record.
AddToPortfolio_AlwaysAppend(p, symbol_input, coingecko_id, amount_input) ==
    Append(p, [ticker       |-> symbol_input,
               coingecko_id |-> coingecko_id,
               amount       |-> amount_input,
               cost_basis   |-> 0])

\* The merge-or-append of the add handler.
AddToPortfolio(p, symbol_input, coingecko_id, amount_input) ==
    LET i == FindHolding(p, coingecko_id)
    IN  IF i # 0
        THEN [p EXCEPT ![i].amount = @ + amount_input]
        ELSE Append(p, [ticker       |-> symbol_input,
                        coingecko_id |-> coingecko_id,
                        amount       |-> amount_input,
                        cost_basis   |-> 0])

\* Mutant: the selection is cleared before the list is filtered.
DeleteFilter_AfterClear(p, symbols_to_delete) ==
    SelectSeq(p, LAMBDA holding : holding.ticker \notin {})

\* The list comprehension of the delete handler.
DeleteFilter(p, symbols_to_delete) ==
    SelectSeq(p, LAMBDA holding : holding.ticker \notin symbols_to_delete)

\* The loop of the Save handler.
SetAmount(p, symbol, new_amount) ==
    LET i == FindTicker(p, symbol)
    IN  IF i # 0 THEN [p EXCEPT ![i].amount = new_amount] ELSE p

\* The condition under which the enabled Save button is drawn.
SaveEnabled(new_amount, original_amount) == new_amount # original_amount


\* The same run in the first interaction, when the caches are being filled.
RedrawStart(p) ==
    LET coin_ids_to_fetch == {p[i].coingecko_id : i \in DOMAIN p}
        prices == get_crypto_prices(coin_ids_to_fetch, price_ok', price_data')
        rows == ValuationRows(p, prices)
    IN  /\ current_prices' = prices
        /\ holdings_data_display' = rows
        /\ total_value' = TotalValue(rows)
        /\ chart' = PieChart(rows)
        /\ selected_rows' = CleanSelection({}, rows)

\* ---------------------------------------------------------------- handlers
\* Mutant: an amount of zero passes the form's check.
AddAccepted_AllowsZero(symbol_input, amount_input) ==
    symbol_input # <<>> /\ amount_input >= 0

\* The form's check of its two inputs.
AddAccepted(symbol_input, amount_input) ==
    symbol_input # <<>> /\ amount_input > 0

\* The submit handler of add_coin_form: what it leaves in the session state
\* and in the file, and what it emitted.
AddHandler(raw, amount_input) ==
    LET symbol_input == symbol_input_of[raw]
        coingecko_id == get_coingecko_id(coin_id_map, symbol_input)
    IN  IF AddAccepted(symbol_input, amount_input)
        THEN IF coingecko_id # NoneId
             THEN LET found == FindHolding(portfolio, coingecko_id) # 0
                      p == AddToPortfolio(portfolio, symbol_input,
                                          coingecko_id, amount_input)
                  IN  [coingecko_id     |-> coingecko_id,
                       portfolio        |-> p,
                       file             |-> save_portfolio(p),
                       selected_rows    |-> {},
                       ticker_not_found |-> FALSE,
                       writes           |-> 1,
                       notes            |-> IF found THEN {"success_add_updated"}
                                                     ELSE {"success_added"}]
             ELSE [coingecko_id     |-> NoneId,
                   portfolio        |-> portfolio,
                   file             |-> file,
                   selected_rows    |-> selected_rows,
                   ticker_not_found |-> TRUE,
                   writes           |-> 0,
                   notes            |-> {"error_invalid_ticker"}]
        ELSE [coingecko_id     |-> NoneId,
              portfolio        |-> portfolio,
              file             |-> file,
              selected_rows    |-> selected_rows,
              ticker_not_found |-> FALSE,
              writes           |-> 0,
              notes            |-> {"warning_enter_both"}]

\* Mutant: the delete handler leaves the selection as it is.
DeleteHandler_KeepsSelection ==
    LET symbols_to_delete == selected_rows
        p == DeleteFilter(portfolio, symbols_to_delete)
    IN  [portfolio     |-> p,
         selected_rows |-> selected_rows,
         file          |-> save_portfolio(p),
         writes        |-> 1,
         notes         |-> {"success_deleted"}]

\* The "Delete Selected" handler.
DeleteHandler ==
    LET symbols_to_delete == selected_rows
        p == DeleteFilter(portfolio, symbols_to_delete)
    IN  [portfolio     |-> p,
         selected_rows |-> {},
         file          |-> save_portfolio(p),
         writes        |-> 1,
         notes         |-> {"success_deleted"}]

\* update_selected_rows(current_symbol), checked = the checkbox's new value
update_selected_rows(sel, current_symbol, checked) ==
    IF checked THEN sel \cup {current_symbol} ELSE sel \ {current_symbol}

\* Mutant: the edit button leaves the earlier snapshot in place.
EditSnapshot_Kept(p, symbol) == edit_original_amount

\* The edit button handler: the amount it snapshots.
EditSnapshot(p, symbol) ==
    LET i == FindTicker(p, symbol)
    IN  IF i # 0 THEN p[i].amount ELSE edit_original_amount

\* Mutant: the Save handler leaves the file as it was.
SaveHandler_NoWrite(symbol, new_amount) ==
    [portfolio |-> SetAmount(portfolio, symbol, new_amount),
     file      |-> file,
     edit_row  |-> NoneRow,
     writes    |-> 0,
     notes     |-> {"success_updated"}]

\* The Save handler of the row in edit mode.
SaveHandler(symbol, new_amount) ==
    LET p == SetAmount(portfolio, symbol, new_amount)
    IN  [portfolio |-> p,
         file      |-> save_portfolio(p),
         edit_row  |-> NoneRow,
         writes    |-> 1,
         notes     |-> {"success_updated"}]

\* Mutant: Discard stores the typed amount in the ledger.
DiscardHandler_Commits(symbol, new_amount) ==
    [portfolio |-> SetAmount(portfolio, symbol, new_amount),
     file      |-> file,
     edit_row  |-> NoneRow,
     writes    |-> 0,
     notes     |-> {"edit_discarded"}]

\* The Discard handler of the row in edit mode.  It shows no message; the
\* note records that the edit was abandoned.
DiscardHandler(symbol, new_amount) ==
    [portfolio |-> portfolio,
     file      |-> file,
     edit_row  |-> NoneRow,
     writes    |-> 0,
     notes     |-> {"edit_discarded"}]

\* The row in edit mode is drawn: edit_row is the symbol of a drawn row.
EditModeDrawn == edit_row \in Tickers(portfolio)

\* What an interaction did besides changing the state: how often it called
\* save_portfolio and which messages it showed.
Interaction(writes, notes) == [writes |-> writes, notes |-> notes]

\* ----------------------------------------------------------------- actions
\* The first run of a session: the coin list is fetched, the session state is
\* initialised from the file, the holdings are valued and drawn.
StartSession ==
    /\ ~started
    /\ started' = TRUE
    /\ \E ok \in BOOLEAN : coin_id_map' = get_coin_list(ok)
    /\ \E ok \in BOOLEAN, data \in PriceAnswers(Ids) :
         /\ price_ok' = ok
         /\ price_data' = IF ok THEN data ELSE <<>>
    /\ LET loaded == load_portfolio(file)
           readable == \A i \in DOMAIN loaded.data : WellFormed(loaded.data[i])
       IN  /\ portfolio' = loaded.data
           /\ last' = Interaction(0,
                          IF loaded.error THEN {"error_load"} ELSE {})
           /\ expected_amount' = [id \in Ids |->
                  LET held == {i \in DOMAIN loaded.data :
                                   /\ WellFormed(loaded.data[i])
                                   /\ loaded.data[i].coingecko_id = id}
                  IN  IF held # {}
                      THEN loaded.data[CHOOSE i \in held : TRUE].amount
                      ELSE NoneAmount]
           /\ IF loaded.raised \/ ~readable
              THEN /\ crashed' = TRUE
                   /\ UNCHANGED << selected_rows, current_prices,
                                   holdings_data_display, total_value, chart >>
              ELSE /\ crashed' = FALSE
                   /\ RedrawStart(loaded.data)
    /\ UNCHANGED << file, edit_row, edit_original_amount, ticker_not_found >>

\* The run in which the add form is submitted with raw text and an amount.
AddSubmitWith(raw, amount_input) ==
    LET r == AddHandler(raw, amount_input)
    IN  /\ \A i \in DOMAIN r.portfolio : r.portfolio[i].amount <= MaxAmount
        /\ portfolio' = r.portfolio
        /\ file' = r.file
        /\ ticker_not_found' = r.ticker_not_found
        /\ last' = Interaction(r.writes, r.notes)
        /\ expected_amount' =
             IF r.coingecko_id \in Ids
             THEN [expected_amount EXCEPT ![r.coingecko_id] =
                       (IF @ = NoneAmount THEN 0 ELSE @) + amount_input]
             ELSE expected_amount
        /\ Redraw(r.portfolio, r.selected_rows)
        /\ UNCHANGED << started, crashed, coin_id_map, price_ok, price_data,
                        edit_row, edit_original_amount >>

\* The user submits the add form.
AddSubmit ==
    /\ started /\ ~crashed
    /\ \E raw \in RawInputs, amount_input \in AddAmounts :
         AddSubmitWith(raw, amount_input)

\* The user submits the add form with any of the further texts.
AddTyped ==
    /\ started /\ ~crashed
    /\ \E raw \in TypedTexts, amount_input \in AddAmounts :
         AddSubmitWith(raw, amount_input)

\* The user presses "Delete Selected" (drawn only while rows are selected).
DeleteSelected ==
    /\ started /\ ~crashed
    /\ selected_rows # {}
    /\ LET r == DeleteHandler
       IN  /\ portfolio' = r.portfolio
           /\ file' = r.file
           /\ last' = Interaction(r.writes, r.notes)
           /\ expected_amount' = [id \in Ids |->
                  IF \E i \in DOMAIN portfolio :
                         /\ portfolio[i].coingecko_id = id
                         /\ portfolio[i].ticker \in selected_rows
                  THEN NoneAmount ELSE expected_amount[id]]
           /\ Redraw(r.portfolio, r.selected_rows)
    /\ UNCHANGED << started, crashed, coin_id_map, price_ok, price_data, edit_row,
                    edit_original_amount, ticker_not_found >>

\* The user toggles the checkbox of a drawn row.
ToggleCheckbox ==
    /\ started /\ ~crashed
    /\ \E symbol \in Tickers(portfolio), checked \in BOOLEAN :
         Redraw(portfolio, update_selected_rows(selected_rows, symbol, checked))
    /\ last' = Interaction(0, {})
    /\ UNCHANGED << file, started, crashed, coin_id_map, price_ok, price_data, portfolio, edit_row,
                    edit_original_amount, ticker_not_found, expected_amount >>

\* The user presses the edit button of a drawn row.
EditPressed ==
    /\ started /\ ~crashed
    /\ \E symbol \in Tickers(portfolio) :
         /\ edit_row' = symbol
         /\ edit_original_amount' = EditSnapshot(portfolio, symbol)
    /\ last' = Interaction(0, {})
    /\ Redraw(portfolio, selected_rows)
    /\ UNCHANGED << file, started, crashed, coin_id_map, price_ok, price_data, portfolio,
                    ticker_not_found, expected_amount >>

\* The user presses the enabled Save button with new_amount in the edit field.
SaveEdit ==
    /\ started /\ ~crashed
    /\ EditModeDrawn
    /\ \E new_amount \in EditAmounts :
         /\ SaveEnabled(new_amount, edit_original_amount)
         /\ LET r == SaveHandler(edit_row, new_amount)
                i == FindTicker(portfolio, edit_row)
            IN  /\ portfolio' = r.portfolio
                /\ file' = r.file
                /\ edit_row' = r.edit_row
                /\ last' = Interaction(r.writes, r.notes)
                /\ expected_amount' = [expected_amount EXCEPT
                                           ![portfolio[i].coingecko_id] = new_amount]
                /\ Redraw(r.portfolio, selected_rows)
    /\ UNCHANGED << started, crashed, coin_id_map, price_ok, price_data, edit_original_amount,
                    ticker_not_found >>

\* The user presses Discard with new_amount in the edit field.
Discard ==
    /\ started /\ ~crashed
    /\ EditModeDrawn
    /\ \E new_amount \in EditAmounts :
         LET r == DiscardHandler(edit_row, new_amount)
         IN  /\ portfolio' = r.portfolio
             /\ file' = r.file
             /\ edit_row' = r.edit_row
             /\ last' = Interaction(r.writes, r.notes)
             /\ Redraw(r.portfolio, selected_rows)
    /\ UNCHANGED << started, crashed, coin_id_map, price_ok, price_data,
                    edit_original_amount, ticker_not_found, expected_amount >>

\* The add form is submitted and save_portfolio raises: the ledger was
\* changed and the success message shown before the call, the exception ends
\* the run before the selection is cleared and before anything is redrawn.
AddSubmitWriteFails ==
    /\ started /\ ~crashed
    /\ \E raw \in RawInputs, amount_input \in AddAmounts :
         LET r == AddHandler(raw, amount_input)
         IN  /\ r.writes = 1
             /\ \A i \in DOMAIN r.portfolio : r.portfolio[i].amount <= MaxAmount
             /\ portfolio' = r.portfolio
             /\ file' \in FailedSave(file)
             /\ ticker_not_found' = r.ticker_not_found
             /\ last' = Interaction(r.writes, r.notes)
             /\ expected_amount' =
                    [expected_amount EXCEPT ![r.coingecko_id] =
                         (IF @ = NoneAmount THEN 0 ELSE @) + amount_input]
    /\ crashed' = TRUE
    /\ UNCHANGED << started, coin_id_map, price_ok, price_data, selected_rows,
                    edit_row, edit_original_amount, current_prices,
                    holdings_data_display, total_value, chart >>

\* "Delete Selected" is pressed and save_portfolio raises: the ledger was
\* filtered and the selection cleared before the call, the success message
\* comes after it and is not reached.
DeleteWriteFails ==
    /\ started /\ ~crashed
    /\ selected_rows # {}
    /\ LET r == DeleteHandler
       IN  /\ portfolio' = r.portfolio
           /\ selected_rows' = r.selected_rows
           /\ file' \in FailedSave(file)
           /\ last' = Interaction(r.writes, {})
           /\ expected_amount' = [id \in Ids |->
                  IF \E i \in DOMAIN portfolio :
                         /\ portfolio[i].coingecko_id = id
                         /\ portfolio[i].ticker \in selected_rows
                  THEN NoneAmount ELSE expected_amount[id]]
    /\ crashed' = TRUE
    /\ UNCHANGED << started, coin_id_map, price_ok, price_data, edit_row,
                    edit_original_amount, ticker_not_found, current_prices,
                    holdings_data_display, total_value, chart >>

\* Save is pressed and save_portfolio raises: the amount was stored before
\* the call; leaving edit mode and the success message come after it and are
\* not reached.
SaveWriteFails ==
    /\ started /\ ~crashed
    /\ EditModeDrawn
    /\ \E new_amount \in EditAmounts :
         /\ SaveEnabled(new_amount, edit_original_amount)
         /\ LET r == SaveHandler(edit_row, new_amount)
                i == FindTicker(portfolio, edit_row)
            IN  /\ portfolio' = r.portfolio
                /\ file' \in FailedSave(file)
                /\ last' = Interaction(r.writes, {})
                /\ expected_amount' = [expected_amount EXCEPT
                                           ![portfolio[i].coingecko_id] = new_amount]
    /\ crashed' = TRUE
    /\ UNCHANGED << started, coin_id_map, price_ok, price_data, selected_rows,
                    edit_row, edit_original_amount, ticker_not_found,
                    current_prices, holdings_data_display, total_value, chart >>

Next ==
    \/ StartSession
    \/ AddSubmit
    \/ DeleteSelected
    \/ ToggleCheckbox
    \/ EditPressed
    \/ SaveEdit
    \/ Discard

\* ------------------------------------------------------------ initial state
\* The defaults of the session state before the first run.
Fresh ==
    /\ started = FALSE
    /\ crashed = FALSE
    /\ coin_id_map = <<>>
    /\ price_ok = FALSE
    /\ price_data = <<>>
    /\ portfolio = <<>>
    /\ selected_rows = {}
    /\ edit_row = NoneRow
    /\ edit_original_amount = NoneAmount
    /\ ticker_not_found = FALSE
    /\ current_prices = <<>>
    /\ holdings_data_display = <<>>
    /\ total_value = 0
    /\ chart = NoChart
    /\ last = Interaction(0, {})
    /\ expected_amount = [id \in Ids |-> NoneAmount]

\* A new session with no persisted file: the ledger starts empty.
Init == file = AbsentFile /\ Fresh

Spec == Init /\ [][Next]_vars

BTC == <<"B", "T", "C">>
ETH == <<"E", "T", "H">>

Holding(ticker, coingecko_id, amount) ==
    [ticker |-> ticker, coingecko_id |-> coingecko_id, amount |-> amount,
     cost_basis |-> 0]

\* Documents DATA_FILE may hold when a session starts.
FileContents ==
    { AbsentFile,
      [kind |-> "unreadable", data |-> <<>>],
      [kind |-> "undecodable", data |-> <<>>],
      [kind |-> "badjson", data |-> <<>>],
      [kind |-> "nonlist", data |-> <<>>],
      [kind |-> "list", data |-> <<>>],
      [kind |-> "list", data |-> << Holding(BTC, "bitcoin", 1) >>],
      [kind |-> "list", data |-> << Holding(ETH, "ethereum", 2),
                                    Holding(BTC, "bitcoin", 1) >>],
      [kind |-> "list", data |-> << [ticker |-> BTC, amount |-> 1] >>],
      [kind |-> "list", data |-> << Holding(BTC, "bitcoin", 1),
                                    [scalar |-> 1] >>] }

\* A new session over any persisted file.
InitLoad == file \in FileContents /\ Fresh

SpecLoad == InitLoad /\ [][Next]_vars

BITCOIN == <<"B", "I", "T", "C", "O", "I", "N">>

\* Ledgers the add handler can have built, and any selection over the
\* tickers it can have stored: the session states the delete handler is
\* applied to when it is checked as a function of ledger and selection.
Ledgers ==
    LET table == get_coin_list(TRUE)
        holdings == {Holding(t, get_coingecko_id(table, t), a) :
                         t \in {BTC, BITCOIN, ETH}, a \in 1 .. MaxAmount}
    IN  {<<>>} \cup {<<h>> : h \in holdings}
            \cup {l \in {<<h1, h2>> : h1 \in holdings, h2 \in holdings} :
                        l[1].coingecko_id # l[2].coingecko_id}

InitDelete ==
    /\ started = TRUE
    /\ crashed = FALSE
    /\ coin_id_map = get_coin_list(TRUE)
    /\ price_ok = TRUE
    /\ price_data = [id \in Ids |-> MaxPrice]
    /\ portfolio \in Ledgers
    /\ selected_rows \in (SUBSET {BTC, BITCOIN, ETH}) \ {{}}
    /\ edit_row = NoneRow
    /\ edit_original_amount = NoneAmount
    /\ ticker_not_found = FALSE
    /\ file = save_portfolio(portfolio)
    /\ current_prices =
           get_crypto_prices({portfolio[i].coingecko_id : i \in DOMAIN portfolio},
                             price_ok, price_data)
    /\ holdings_data_display = ValuationRows(portfolio, current_prices)
    /\ total_value = TotalValue(holdings_data_display)
    /\ chart = PieChart(holdings_data_display)
    /\ last = Interaction(0, {})
    /\ expected_amount = [id \in Ids |->
           IF FindHolding(portfolio, id) # 0
           THEN portfolio[FindHolding(portfolio, id)].amount
           ELSE NoneAmount]

\* The delete handler applied once to every such ledger and selection.
SpecDelete == InitDelete /\ [][DeleteSelected]_vars

\* A session in which a write of DATA_FILE may fail.
NextIO ==
    \/ Next
    \/ AddSubmitWriteFails
    \/ DeleteWriteFails
    \/ SaveWriteFails

SpecIO == Init /\ [][NextIO]_vars

\* A session in which only the add form is used, with every typed text.
SpecResolve == Init /\ [][StartSession \/ AddTyped]_vars

\* ================================================================== claims

\* C1: from an empty ledger, whatever add, edit-save, discard, checkbox and
\* delete interactions happen, no two records of the portfolio have the same
\* coingecko_id.
C1_UniqueProviderId ==
    \A i, j \in DOMAIN portfolio :
        i # j => portfolio[i].coingecko_id # portfolio[j].coingecko_id

\* C1 witness: a second add of a held coin, typed under its other name, was
\* merged while another coin is held too.
C1_Witness ==
    /\ last.notes = {"success_add_updated"}
    /\ Len(portfolio) = 2
    /\ \E i \in DOMAIN portfolio :
           portfolio[i].coingecko_id = "bitcoin" /\ portfolio[i].amount >= 2

\* C2: after adds that resolve to one coingecko_id, with no edit or delete
\* of that holding in between, the ledger holds exactly one record of that
\* id and its amount is the sum of the amounts added.  (expected_amount is
\* that sum; an edit restarts it from the saved amount, a delete from
\* nothing.)
C2_AmountIsSumOfAdds ==
    \A id \in Ids :
        expected_amount[id] # NoneAmount =>
            /\ Cardinality({i \in DOMAIN portfolio :
                                portfolio[i].coingecko_id = id}) = 1
            /\ \A i \in DOMAIN portfolio :
                   portfolio[i].coingecko_id = id =>
                       portfolio[i].amount = expected_amount[id]

\* C2 witness: two adds of one coin were merged into one record.
C2_Witness ==
    /\ last.notes = {"success_add_updated"}
    /\ edit_original_amount = NoneAmount
    /\ \E i \in DOMAIN portfolio :
           /\ portfolio[i].amount = 2
           /\ expected_amount[portfolio[i].coingecko_id] = 2

\* C3: every ledger record has amount >= 0 in every reachable state (a
\* negative edit is rejected, add never produces a negative amount).
C3_AmountNonNegative ==
    \A i \in DOMAIN portfolio : portfolio[i].amount >= 0

\* C4: every edit-save that writes the file and shows the "updated" message
\* changes the holding's amount; a save whose entered amount is the
\* holding's current amount does neither.
C4_SaveOnlyOnChange ==
    [][("success_updated" \in last'.notes \/
        (edit_row # NoneRow /\ edit_row' = NoneRow /\ last'.writes > 0))
           => portfolio' # portfolio]_vars

\* An add input that must be rejected: no ticker, no amount above zero, or
\* a ticker that is no key of the resolver table.
C5_Trimmed == [raw \in RawInputs |-> Strip(raw)]

C5_Key == [raw \in RawInputs |-> Lower(Strip(raw))]

C5_Rejected(raw, amount_input) ==
    \/ C5_Trimmed[raw] = <<>>
    \/ amount_input <= 0
    \/ C5_Key[raw] \notin DOMAIN coin_id_map

\* C5: an add submission with an empty ticker, an amount not above zero or
\* a ticker the resolver table does not contain leaves the ledger and the
\* file unchanged, and in the last case sets ticker_not_found.  (Every step
\* either has that effect or is no rejected add submission.)
C5_RejectedAddChangesNothing ==
    [][\A raw \in RawInputs, amount_input \in AddAmounts :
           \/ /\ portfolio' = portfolio
              /\ file' = file
              /\ last'.writes = 0
              /\ (C5_Trimmed[raw] # <<>> /\ amount_input > 0) => ticker_not_found'
           \/ ~(started /\ ~crashed /\ C5_Rejected(raw, amount_input)
                    /\ AddSubmitWith(raw, amount_input))
      ]_vars

\* C5 witness: an unresolved ticker was rejected while a holding exists.
C5_Witness ==
    /\ last.notes = {"error_invalid_ticker"}
    /\ ticker_not_found
    /\ portfolio # <<>>
    /\ file.kind = "list"

\* C6: Delete Selected with selection S leaves exactly the records whose
\* ticker is not in S, unchanged and in their previous order; a ticker in S
\* that matches no record has no effect; the file is written once and the
\* selection is empty afterwards.
C6_DeleteRemovesExactlySelected ==
    [][DeleteSelected =>
          LET keep == {i \in DOMAIN portfolio :
                           portfolio[i].ticker \notin selected_rows}
          IN  /\ Len(portfolio') = Cardinality(keep)
              /\ \E f \in [DOMAIN portfolio' -> keep] :
                    /\ \A k, l \in DOMAIN portfolio' : k < l => f[k] < f[l]
                    /\ \A k \in DOMAIN portfolio' : portfolio'[k] = portfolio[f[k]]
              /\ selected_rows' = {}
              /\ last'.writes = 1
              /\ file' = [kind |-> "list", data |-> portfolio']
              /\ ~crashed'
      ]_vars

\* C6 witness: a deletion left one of two holdings.
C6_Witness ==
    /\ last.notes = {"success_deleted"}
    /\ Len(portfolio) = 1
    /\ selected_rows = {}

\* C7: starting from an absent or a valid file, at the end of every
\* interaction the persisted list equals the in-memory ledger.
C7_FileEqualsLedger ==
    (started /\ ~crashed) =>
        /\ file.kind = "absent" => portfolio = <<>>
        /\ file.kind = "list" => file.data = portfolio

\* C7 witness: an edit was saved and a holding remains.
C7_Witness ==
    /\ last.notes = {"success_updated"}
    /\ last.writes = 1
    /\ portfolio # <<>>
    /\ file.kind = "list"

\* Sum of the values of rows 1..n.
RECURSIVE C8_Sum(_, _)
C8_Sum(rows, n) == IF n = 0 THEN 0 ELSE rows[n].value + C8_Sum(rows, n - 1)

\* C8: the valuation has one row per ledger record, in ledger order, with
\* value = amount * price, a provider id absent from the price map priced
\* 0, and total_value the sum of the row values; an empty price map gives
\* value 0 in every row and total 0.
C8_Valuation ==
    (started /\ ~crashed) =>
        /\ Len(holdings_data_display) = Len(portfolio)
        /\ \A i \in DOMAIN portfolio :
               LET row == holdings_data_display[i]
                   id == portfolio[i].coingecko_id
               IN  /\ row.symbol = portfolio[i].ticker
                   /\ row.coingecko_id = id
                   /\ row.amount = portfolio[i].amount
                   /\ id \in DOMAIN current_prices => row.price = current_prices[id]
                   /\ id \notin DOMAIN current_prices => row.price = 0
                   /\ row.value = row.amount * row.price
        /\ total_value = C8_Sum(holdings_data_display, Len(holdings_data_display))
        /\ current_prices = <<>> =>
               /\ total_value = 0
               /\ \A i \in DOMAIN holdings_data_display :
                      holdings_data_display[i].value = 0

\* C8 witness: two holdings, one valued at its price, one below zero.
C8_Witness ==
    /\ Len(portfolio) = 2
    /\ current_prices # <<>>
    /\ \E i, j \in DOMAIN holdings_data_display :
           /\ holdings_data_display[i].value > 0
           /\ holdings_data_display[j].value < 0

\* C9: whenever the total portfolio value is 0 no pie chart is drawn, and
\* a chart is drawn only when the total is above 0.
C9_NoChartUnlessTotalPositive ==
    (started /\ ~crashed) =>
        /\ total_value = 0 => ~chart.rendered
        /\ chart.rendered => total_value > 0

\* C10: the first run never ends in an exception, whatever the file holds:
\* a file that cannot be read, decoded or parsed, or whose root is no list,
\* gives an empty ledger and a reported error, and what load_portfolio
\* returns does not make the rest of the run fail.
C10_LoadFailsSoft ==
    [][(~started /\ started') =>
          /\ ~crashed'
          /\ file.kind \in {"unreadable", "undecodable", "badjson", "nonlist"}
                 => (portfolio' = <<>> /\ "error_load" \in last'.notes)
          /\ file.kind = "absent" => portfolio' = <<>>
      ]_vars

\* C11: Discard in edit mode sets edit_row to None and leaves the ledger,
\* the persisted file and the selection unchanged, whatever amount the edit
\* field holds.
C11_DiscardChangesNothing ==
    [][Discard =>
          /\ edit_row' = NoneRow
          /\ portfolio' = portfolio
          /\ file' = file
          /\ selected_rows' = selected_rows
          /\ last'.writes = 0
      ]_vars

\* C11 witness: an edit of a selected holding was discarded.
C11_Witness ==
    /\ last.notes = {"edit_discarded"}
    /\ edit_row = NoneRow
    /\ edit_original_amount # NoneAmount
    /\ selected_rows # {}
    /\ portfolio # <<>>

\* The text with its letter case and its surrounding blanks removed.
C12_Folded == [raw \in TypedTexts |-> Lower(Strip(raw))]

\* What the add form resolves a typed text to.
C12_Resolve(raw) == get_coingecko_id(coin_id_map, symbol_input_of[raw])

\* The ledger after the texts raw1 and raw2 were added to an empty ledger.
C12_AddTwice(raw1, amount1, raw2, amount2) ==
    AddToPortfolio(
        AddToPortfolio(<<>>, symbol_input_of[raw1], C12_Resolve(raw1), amount1),
        symbol_input_of[raw2], C12_Resolve(raw2), amount2)

\* C12: two texts that differ only in letter case or surrounding blanks
\* resolve to the same result; a text that is, up to case and blanks, a key
\* of the table resolves to the id the table holds for it, so a symbol and
\* a name of one id resolve to that id; and adding two texts of one id to
\* an empty ledger leaves one record whose amount is the sum.
C12_ResolutionInsensitive ==
    (started /\ ~crashed) =>
        \A raw1, raw2 \in TypedTexts :
            /\ C12_Folded[raw1] = C12_Folded[raw2]
                   => C12_Resolve(raw1) = C12_Resolve(raw2)
            /\ C12_Folded[raw1] \in DOMAIN coin_id_map
                   => C12_Resolve(raw1) = coin_id_map[C12_Folded[raw1]]
            /\ (C12_Resolve(raw1) # NoneId /\ C12_Resolve(raw1) = C12_Resolve(raw2))
                   => \A amount1, amount2 \in 1 .. MaxAmount :
                          LET p == C12_AddTwice(raw1, amount1, raw2, amount2)
                          IN  /\ Len(p) = 1
                              /\ p[1].amount = amount1 + amount2
                              /\ p[1].coingecko_id = C12_Resolve(raw1)

\* C12 witness: the table is filled, and an add typed as a symbol was merged
\* into the record first added under the coin's full name.
C12_Witness ==
    /\ C12_Resolve(<<"b", "t", "c">>) = "bitcoin"
    /\ C12_Resolve(<<" ", "B", "t", "c", " ">>) = "bitcoin"
    /\ C12_Resolve(<<"B", "i", "t", "c", "o", "i", "n">>) = "bitcoin"
    /\ last.notes = {"success_add_updated"}
    /\ Len(portfolio) = 1
    /\ portfolio[1].ticker = BITCOIN
    /\ portfolio[1].amount = 2

\* The messages that tell the user a mutation succeeded.
C13_SuccessNotes ==
    {"success_added", "success_add_updated", "success_updated", "success_deleted"}

\* C13: when the write of an add, an edit-save or a delete fails (the
\* handler called save_portfolio and the file does not hold the ledger),
\* the run ends with the exception and showed no success message.
C13_FailedWriteNoSuccess ==
    [][(started /\ ~crashed /\ last'.writes > 0
            /\ file' # save_portfolio(portfolio'))
          => (crashed' /\ last'.notes \cap C13_SuccessNotes = {})
      ]_vars

\* The file holds a list of complete records, or there is no file.
C14_FileLoads ==
    /\ file.kind \in {"absent", "list"}
    /\ \A i \in DOMAIN file.data : WellFormed(file.data[i])

\* After a failed price fetch: no prices, every row worth 0, total 0.
C14_PricesDegraded ==
    (~price_ok) =>
        /\ current_prices = <<>>
        /\ Len(holdings_data_display) = Len(portfolio)
        /\ \A i \in DOMAIN holdings_data_display :
               holdings_data_display[i].value = 0
        /\ total_value = 0

\* After a failed symbol-list fetch: every add that passes the form's check
\* is answered "invalid ticker", and no add changes ledger or file.
C14_TableDegraded ==
    (coin_id_map = <<>>) =>
        \A raw \in RawInputs, amount_input \in AddAmounts :
            LET r == AddHandler(raw, amount_input)
            IN  /\ r.portfolio = portfolio
                /\ r.file = file
                /\ r.writes = 0
                /\ AddAccepted(symbol_input_of[raw], amount_input)
                       => (r.ticker_not_found
                              /\ r.notes = {"error_invalid_ticker"})

\* The controls that are drawn can be used.
C14_Usable ==
    /\ ENABLED AddSubmit
    /\ portfolio # <<>> => (ENABLED ToggleCheckbox /\ ENABLED EditPressed)
    /\ selected_rows # {} => ENABLED DeleteSelected
    /\ EditModeDrawn => ENABLED Discard
    /\ EditModeDrawn => ENABLED SaveEdit

\* C14: a failed price fetch or symbol-list fetch never ends a run with an
\* exception and never changes the ledger: the first run leaves the ledger
\* as loaded, later runs after a failure complete; a failed price fetch
\* gives an empty price map, rows worth 0 and total 0; a failed symbol-list
\* fetch gives an empty table and every add is rejected as unresolved; and
\* after either failure add, edit and delete can still be used.
C14_SourceFailureDegrades ==
    /\ []((started /\ ~crashed /\ (~price_ok \/ coin_id_map = <<>>)) =>
              (C14_PricesDegraded /\ C14_TableDegraded /\ C14_Usable))
    /\ [][((~started /\ started' /\ C14_FileLoads
                /\ (~price_ok' \/ coin_id_map' = <<>>))
              => (~crashed' /\ portfolio' = file.data))
          /\ ((started /\ ~crashed /\ (~price_ok \/ coin_id_map = <<>>))
              => ~crashed')
        ]_vars

\* C14 witness: both fetches failed, the loaded holdings are drawn without
\* value, an add was rejected as unresolved and then an edit of a holding
\* was saved.
C14_Witness ==
    /\ started /\ ~crashed
    /\ ~price_ok
    /\ coin_id_map = <<>>
    /\ ticker_not_found
    /\ last.notes = {"success_updated"}
    /\ holdings_data_display # <<>>
    /\ total_value = 0

\* The records drawn in edit mode for the value r of edit_row.
C15_InEditMode(p, r) == {i \in DOMAIN p : p[i].ticker = r}

\* C15: pressing the edit button of a row puts that row in edit mode and
\* stores the holding's amount of that moment in edit_original_amount; a
\* Save that fires has an entered amount different from that snapshot, sets
\* exactly that holding's amount to it, writes the file and leaves edit
\* mode (edit_row = None); and never is more than one record in edit mode.
C15_EditToggle ==
    [][/\ EditPressed =>
              /\ Cardinality(C15_InEditMode(portfolio, edit_row')) = 1
              /\ \A i \in C15_InEditMode(portfolio, edit_row') :
                     edit_original_amount' = portfolio[i].amount
              /\ portfolio' = portfolio
       /\ SaveEdit =>
              /\ Cardinality(C15_InEditMode(portfolio, edit_row)) = 1
              /\ \A i \in C15_InEditMode(portfolio, edit_row) :
                     /\ portfolio'[i].amount # edit_original_amount
                     /\ portfolio' =
                            [portfolio EXCEPT ![i].amount = portfolio'[i].amount]
              /\ file' = save_portfolio(portfolio')
              /\ last'.writes = 1
              /\ edit_row' = NoneRow
       /\ Cardinality(C15_InEditMode(portfolio', edit_row')) <= 1
      ]_vars

\* C15 witness: with two holdings, one was put in edit mode and saved with
\* an amount other than the snapshot.
C15_Witness ==
    /\ last.notes = {"success_updated"}
    /\ edit_row = NoneRow
    /\ Len(portfolio) = 2
    /\ edit_original_amount = 1
    /\ \E i \in DOMAIN portfolio : portfolio[i].amount = 2

\* C16: an add that reports a new holding leaves the existing records as
\* they were, in their order, and puts one record of a provider id not held
\* before behind them; an add that reports an updated holding keeps length
\* and order, raises the amount of one record and leaves that record's
\* ticker and provider id and every other record unchanged.
C16_AddFrame ==
    [][/\ "success_added" \in last'.notes =>
              /\ Len(portfolio') = Len(portfolio) + 1
              /\ SubSeq(portfolio', 1, Len(portfolio)) = portfolio
              /\ \A i \in DOMAIN portfolio :
                     portfolio[i].coingecko_id
                         # portfolio'[Len(portfolio')].coingecko_id
              /\ portfolio'[Len(portfolio')].amount > 0
       /\ "success_add_updated" \in last'.notes =>
              /\ Len(portfolio') = Len(portfolio)
              /\ \E i \in DOMAIN portfolio :
                     /\ portfolio'[i].amount > portfolio[i].amount
                     /\ portfolio' =
                            [portfolio EXCEPT ![i].amount = portfolio'[i].amount]
      ]_vars

\* C16 witness: a second coin was appended behind the first, then an add
\* typed as a symbol was merged into the first record, which keeps the
\* ticker and the place it was first entered with.
C16_Witness ==
    /\ last.notes = {"success_add_updated"}
    /\ edit_original_amount = NoneAmount
    /\ Len(portfolio) = 2
    /\ portfolio[1].ticker = BITCOIN
    /\ portfolio[1].amount = 2
    /\ portfolio[2].amount = 1

\* The provider ids of the records with a ticker in symbols.
C17_IdsOf(p, symbols) ==
    {p[i].coingecko_id : i \in {j \in DOMAIN p : p[j].ticker \in symbols}}

\* C17: from an empty ledger, under the session's resolver table, no two
\* records have the same ticker and each record's ticker resolves to the
\* record's provider id; so Delete Selected removes exactly the records
\* with the provider ids of the selected tickers, and Save changes exactly
\* the record with the provider id of the ticker in edit mode.
C17_TickerKeyIsIdKey ==
    /\ [](/\ \A i, j \in DOMAIN portfolio :
                 i # j => portfolio[i].ticker # portfolio[j].ticker
          /\ \A i \in DOMAIN portfolio :
                 get_coingecko_id(coin_id_map, portfolio[i].ticker)
                     = portfolio[i].coingecko_id)
    /\ [][/\ DeleteSelected =>
                 LET ids == C17_IdsOf(portfolio, selected_rows)
                 IN  portfolio' =
                         SelectSeq(portfolio,
                                   LAMBDA h : h.coingecko_id \notin ids)
          /\ SaveEdit =>
                 LET edited == C17_IdsOf(portfolio, {edit_row})
                 IN  /\ Cardinality(edited) = 1
                     /\ Len(portfolio') = Len(portfolio)
                     /\ \A i \in DOMAIN portfolio :
                            IF portfolio[i].coingecko_id \in edited
                            THEN portfolio'[i].amount # edit_original_amount
                            ELSE portfolio'[i] = portfolio[i]
         ]_vars

\* C17 witness: two coins are held under different tickers, one of them
\* entered by its full name, and the edit of that one was saved.
C17_Witness ==
    /\ last.notes = {"success_updated"}
    /\ Len(portfolio) = 2
    /\ Tickers(portfolio) = {BITCOIN, ETH}
    /\ \E i \in DOMAIN portfolio :
           /\ portfolio[i].ticker = BITCOIN
           /\ portfolio[i].amount = 0
           /\ edit_original_amount = 1

\* C18: at the end of every interaction edit_row is None or the ticker of
\* a record of the ledger.
C18_NoDanglingEdit ==
    (started /\ ~crashed) =>
        (edit_row = NoneRow \/ edit_row \in Tickers(portfolio))

\* C19: at the end of every interaction the selection holds only tickers
\* of records of the ledger; it is empty after every successful add and
\* after every Delete Selected; and Delete Selected removes only records
\* whose ticker is in the selection.
C19_SelectionWithinLedger ==
    /\ []((started /\ ~crashed)
              => (selected_rows \subseteq Tickers(portfolio)))
    /\ [][/\ (last'.notes \cap {"success_added", "success_add_updated",
                                "success_deleted"} # {})
                 => (selected_rows' = {})
          /\ DeleteSelected =>
                 /\ selected_rows' = {}
                 /\ Tickers(portfolio) \ Tickers(portfolio') = selected_rows
         ]_vars

\* C19 witness: the last holding was selected and deleted; no row is drawn,
\* and the selection is empty.
C19_Witness ==
    /\ last.notes = {"success_deleted"}
    /\ portfolio = <<>>
    /\ holdings_data_display = <<>>
    /\ selected_rows = {}

====
